---- MODULE Spec2Model ----
(***************************************************************************)
(* State-machine model of src/main.py: the enrollment (Flexge) and billing *)
(* (Asaas) orchestration handlers and the inactivity scan.                 *)
(*                                                                         *)
(* Strings that the code converts (lower, strip, re.sub, split) are        *)
(* sequences of one-character strings, so the conversions are computed.    *)
(* A remote call has one of three outcomes: the platform answers 200, it   *)
(* answers a non-success status, or the call raises (timeout, connection). *)
(* Every remote call is a step of its own, so that the requests of two     *)
(* server processes interleave.                                            *)
(***************************************************************************)
EXTENDS Integers, Sequences, FiniteSets, TLC

\* ------------------------------------------------------------ bounds
\* Non-empty pages the enrollment listing may hold.
MaxPages == 2

\* Inactivity scans requested one after the other in a behaviour of RescanSpec.
MaxScans == 2

\* ------------------------------------------------------------ strings
UpperCase ==
    <<"A", "B", "C", "D", "E", "F", "G", "H", "I", "J", "K", "L", "M",
      "N", "O", "P", "Q", "R", "S", "T", "U", "V", "W", "X", "Y", "Z">>

LowerCase ==
    <<"a", "b", "c", "d", "e", "f", "g", "h", "i", "j", "k", "l", "m",
      "n", "o", "p", "q", "r", "s", "t", "u", "v", "w", "x", "y", "z">>

\* str.lower() of one character: an upper-case letter becomes the lower-case
\* one, every other character stays.
Lower(c) ==
    IF \E k \in 1..Len(UpperCase) : UpperCase[k] = c
    THEN LowerCase[CHOOSE k \in 1..Len(UpperCase) : UpperCase[k] = c]
    ELSE c

lower(s) == [i \in 1..Len(s) |-> Lower(s[i])]

\* The control characters U+000B and U+001C to U+001F, written as themselves.
VerticalTab == ""

FileSeparator == ""

GroupSeparator == ""

RecordSeparator == ""

UnitSeparator == ""

\* The characters str.strip() and str.split() take for whitespace: those of
\* the ASCII characters, the alphabet of the model, that str.isspace() holds for.
IsSpace(c) ==
    c \in {" ", "\t", "\n", "\r", "\f", VerticalTab, FileSeparator, GroupSeparator,
           RecordSeparator, UnitSeparator}

IsDigit(c) == c \in {"0", "1", "2", "3", "4", "5", "6", "7", "8", "9"}

RECURSIVE lstrip(_)
lstrip(s) == IF s # <<>> /\ IsSpace(Head(s)) THEN lstrip(Tail(s)) ELSE s

RECURSIVE rstrip(_)
rstrip(s) == IF s # <<>> /\ IsSpace(s[Len(s)]) THEN rstrip(SubSeq(s, 1, Len(s) - 1)) ELSE s

strip(s) == rstrip(lstrip(s))

\* re.sub(r"\D", "", s)
OnlyDigits(s) == SelectSeq(s, IsDigit)

\* s[-n:]
LastN(s, n) == IF Len(s) <= n THEN s ELSE SubSeq(s, Len(s) - n + 1, Len(s))

RECURSIVE TakeWord(_)
TakeWord(s) == IF s = <<>> \/ IsSpace(Head(s)) THEN <<>> ELSE <<Head(s)>> \o TakeWord(Tail(s))

\* s.split(): the list of whitespace-separated words; only its emptiness and
\* its first word are used by the code.
SplitIsEmpty(s) == lstrip(s) = <<>>

\* s.split()[0]
FirstWord(s) == TakeWord(lstrip(s))

\* ------------------------------------------------------------ JSON values
\* dict.get(key): the key may be absent, hold null, or hold a string.
Missing == [k |-> "missing"]

Null == [k |-> "null"]

Str(s) == [k |-> "str", v |-> s]

\* Python truthiness of a value read with dict.get(key)
Truthy(x) == x.k = "str" /\ x.v # <<>>

\* str(x or "")
StrOrEmpty(x) == IF Truthy(x) THEN x.v ELSE <<>>

\* ------------------------------------------------------------ remote calls
\* What happens to one remote request: "ok" (the platform handles it and
\* answers by its own rules, 200 or a refusal), a non-success status it
\* answers without acting, or "raise" (requests raises: timeout, connection
\* error).
ErrorStatuses == {"503"}

Fates == {"ok", "raise"} \cup ErrorStatuses

\* ------------------------------------------------------------ exceptions
\* An exception value: its class, the status_code of a fastapi HTTPException
\* ("" otherwise) and its text as a sequence of fragments.
HTTPException(code, detail) == [type |-> "HTTPException", status_code |-> code, detail |-> detail]

\* response.raise_for_status() on a non-success status
HTTPError(status) == [type |-> "HTTPError", status_code |-> "", detail |-> <<status, " Error for url">>]

\* requests raising before any response (timeout, connection error)
RequestException == [type |-> "RequestException", status_code |-> "", detail |-> <<"request failed">>]

PyError(type) == [type |-> type, status_code |-> "", detail |-> <<type>>]

\* str(e)
StrExc(e) == IF e.type = "HTTPException" THEN <<e.status_code, ": ">> \o e.detail ELSE e.detail

\* What the caller of a handler receives: the HTTP status and the body.
Response(code, body) == [code |-> code, body |-> body]

\* FastAPI's answer to a raised HTTPException
Raise(e) == Response(e.status_code, [detail |-> e.detail])

\* FastAPI's answer to an exception no handler caught
Unhandled == Response("500", [detail |-> <<"Internal Server Error">>])

NoResponse == Response("", [detail |-> <<>>])

\* A function called directly ends with an exception nothing caught: the
\* caller receives the exception itself.
Propagated(e) == [code |-> "raise", body |-> [type |-> e.type, detail |-> StrExc(e)]]

\* ------------------------------------------------------------ state
VARIABLES
    pages,          \* enrollment platform: the student listing, page by page
    customers,      \* billing platform: customers, id = position
    subscriptions,  \* billing platform: subscriptions, id = position
    payments,       \* billing platform: payments, id = position
    enforcesUnique, \* billing platform: rejects a second customer with a used email
    inv,            \* per worker: the handler invocation it runs
    scan,           \* the inactivity scan: check_inatividade and its background tasks
    server          \* the process: how far the load of the module has come

Workers == {1, 2}

\* The process: the step of the module's load it is at ("serving" once the
\* module is loaded and requests are accepted, "failed" when the load raised),
\* the environment it was started in, the requests the load sent and the
\* exception that ended it.
Process(pc, env) == [pc |-> pc, env |-> env, requests |-> <<>>, error |-> ""]

\* An environment with every key set, the default port, started as a script.
FullEnvironment ==
    [OPENAI_API_KEY |-> TRUE, ASAAS_API_KEY |-> TRUE, FLEXGE_API_KEY |-> TRUE,
     SMTP_USER |-> TRUE, SMTP_PASSWORD |-> TRUE, SMTP_PORT |-> "unset", main |-> TRUE]

\* The handlers are modelled in a process that serves.
Serving == Process("serving", FullEnvironment)

\* A request this invocation sent: method, resource, argument, fate.
Req(m, r, a, f) == [m |-> m, r |-> r, a |-> a, f |-> f]

NoStudent == [id |-> <<>>, email |-> <<>>, name |-> <<>>, phone |-> Missing, cpf |-> Missing,
              lastAccess |-> Missing]

\* `aluno` is None
IsNoStudent(a) == a.id = <<>>

\* No request body read yet.
NoPaymentRequest == [valor |-> 0, vencimento |-> [iso |-> FALSE, date |-> "", time |-> ""]]

Idle == [op |-> "", pc |-> "idle", email |-> <<>>, page |-> 0, aluno |-> NoStudent, cid |-> 0,
         sub |-> 0, pay |-> 0, link |-> Null, request |-> NoPaymentRequest, log |-> <<>>,
         result |-> NoResponse]

\* ------------------------------------------------------------ enrollment client
\* get_students(page): the parsed body on 200, None otherwise; raises when
\* the request raises.  A page past the end of the listing has no docs.
get_students(page, fate) ==
    [raised |-> fate = "raise",
     data |-> IF fate = "ok"
              THEN [k |-> "json", docs |-> IF page <= Len(pages) THEN pages[page] ELSE <<>>]
              ELSE [k |-> "none", docs |-> <<>>]]

\* The first student of docs whose lowercased email is the lowercased one given.
RECURSIVE MatchIn(_, _)
MatchIn(docs, email) ==
    IF docs = <<>> THEN NoStudent
    ELSE IF lower(Head(docs).email) = lower(email) THEN Head(docs)
    ELSE MatchIn(Tail(docs), email)

\* ------------------------------------------------------------ billing platform
\* GET /customers?email=e: the ids of the customers with that email, in id order.
CustomersByEmail(e) == SelectSeq([i \in 1..Len(customers) |-> i], LAMBDA i : customers[i].email = e)

\* GET /subscriptions?customer=c: the customer's subscriptions, in id order.
SubscriptionsOf(c) ==
    SelectSeq([i \in 1..Len(subscriptions) |-> i], LAMBDA i : subscriptions[i].customer = c)

\* GET /subscriptions?customer=c&status=ACTIVE
ActiveSubscriptionsOf(c) ==
    SelectSeq(SubscriptionsOf(c), LAMBDA i : subscriptions[i].status = "ACTIVE")

\* GET /payments?subscription=s&status=PENDING
PendingPaymentsOfSubscription(s) ==
    SelectSeq([i \in 1..Len(payments) |-> i],
              LAMBDA i : payments[i].subscription = s /\ payments[i].status = "PENDING")

\* Whether POST /customers with this email is refused by the platform.
RejectsCustomer(e) == enforcesUnique /\ CustomersByEmail(e) # <<>>

\* ------------------------------------------------------------ customer resolver
\* get_or_create_customer, line 118
NormalEmail(student) == strip(lower(student.email))

\* The digits of an optional field, its last n kept; None when none is left.
DigitsField(x, n) ==
    LET d == LastN(OnlyDigits(StrOrEmpty(x)), n) IN IF d = <<>> THEN Null ELSE Str(d)

PhoneDigits == 11

CpfDigits == 14

\* The payload with the email as the student record holds it.
CustomerPayloadRawEmail(student) ==
    [name |-> strip(student.name),
     email |-> student.email,
     mobilePhone |-> DigitsField(student.phone, PhoneDigits),
     cpfCnpj |-> DigitsField(student.cpf, CpfDigits)]

\* get_or_create_customer, lines 128-133
CustomerPayload(student) ==
    [name |-> strip(student.name),
     email |-> NormalEmail(student),
     mobilePhone |-> DigitsField(student.phone, PhoneDigits),
     cpfCnpj |-> DigitsField(student.cpf, CpfDigits)]

\* get_or_create_customer, line 125: the lookup answered 200 with a non-empty list.
LookupHit(fate, data) == fate = "ok" /\ data # <<>>

\* The handlers' except clauses: the response an exception raised at a step
\* inside the handler's try block becomes.  listar_cobrancas_assinatura has no
\* try: the exception leaves it.
Caught(op, e) ==
    CASE op \in {"enviar_boleto", "habilitar_aluno"} ->
            Raise(HTTPException("500", StrExc(e)))
      [] op \in {"trocar_assinatura_cartao", "trocar_assinatura_boleto"} ->
            IF e.type = "HTTPError"
            THEN Raise(HTTPException("500", <<"Erro HTTP: ">> \o StrExc(e)))
            ELSE Raise(HTTPException("500", <<"Erro inesperado: ">> \o StrExc(e)))
      [] op = "zaia_reenviar_boleto" ->
            IF e.type = "HTTPError"
            THEN Response("200", [erro |-> <<"Erro HTTP: ">> \o StrExc(e)])
            ELSE Response("200", [erro |-> <<"Erro inesperado: ">> \o StrExc(e)])
      [] op = "listar_cobrancas_assinatura" -> Propagated(e)

\* The invocation ends with this response.
Finish(i, response) == [i EXCEPT !.pc = "done", !.result = response]

Sent(i, req) == [i EXCEPT !.log = Append(@, req)]

\* The step after the resolver returned the customer id.
AfterCustomer(op) ==
    CASE op = "enviar_boleto" -> "payment"
      [] op \in {"trocar_assinatura_cartao", "trocar_assinatura_boleto"} -> "subscription"
      [] op = "zaia_reenviar_boleto" -> "subscriptions"
      [] op = "listar_cobrancas_assinatura" -> "active_subscription"

\* get_or_create_customer, lines 123-126: the lookup by email.
CustomerLookup(w) ==
    /\ inv[w].pc = "customer_lookup"
    /\ \E fate \in Fates :
        LET i == Sent(inv[w], Req("GET", "customers", 0, fate))
            data == CustomersByEmail(NormalEmail(i.aluno))
        IN  inv' = [inv EXCEPT ![w] =
                IF fate = "raise" THEN Finish(i, Caught(i.op, RequestException))
                ELSE IF LookupHit(fate, data)
                THEN [i EXCEPT !.cid = data[1], !.pc = AfterCustomer(i.op)]
                ELSE [i EXCEPT !.pc = "customer_create"]]
    /\ UNCHANGED <<pages, customers, subscriptions, payments, enforcesUnique, scan, server>>

\* get_or_create_customer, lines 128-137: the creation after a lookup that did not hit.
CustomerCreate(w) ==
    /\ inv[w].pc = "customer_create"
    /\ \E fate \in Fates :
        LET payload == CustomerPayload(inv[w].aluno)
            answer == IF fate = "ok" /\ RejectsCustomer(payload.email) THEN "400" ELSE fate
            i == Sent(inv[w], Req("POST", "customers", 0, answer))
        IN  /\ customers' = IF answer = "ok" THEN Append(customers, payload) ELSE customers
            /\ inv' = [inv EXCEPT ![w] =
                    IF answer = "raise" THEN Finish(i, Caught(i.op, RequestException))
                    ELSE IF answer # "ok" THEN Finish(i, Caught(i.op, HTTPError(answer)))
                    ELSE [i EXCEPT !.cid = Len(customers) + 1, !.pc = AfterCustomer(i.op)]]
    /\ UNCHANGED <<pages, subscriptions, payments, enforcesUnique, scan, server>>

\* ------------------------------------------------------------ request inputs
\* The emails callers send: one matching a student up to case, one matching
\* exactly, one that matches no student as sent but normalises to a
\* student's email, and the empty one.
RequestEmails == {<<"a", "B">>, <<"b">>, <<"b", " ">>, <<>>}

\* PaymentRequest.valor and .vencimento: the latter an ISO date, an ISO date
\* and time, or a string datetime.fromisoformat refuses.
PaymentRequests ==
    {[valor |-> 150, vencimento |-> [iso |-> TRUE, date |-> "2025-03-01", time |-> ""]],
     [valor |-> 100, vencimento |-> [iso |-> TRUE, date |-> "2025-03-02", time |-> "T10:30"]],
     [valor |-> 100, vencimento |-> [iso |-> FALSE, date |-> "", time |-> "01/03/2025"]]}

\* due_date.strftime("%Y-%m-%d") of datetime.fromisoformat(vencimento)
DueDateText(venc) == venc.date

\* ------------------------------------------------------------ handlers
\* Each worker serves one request in a behaviour: two requests are in flight.
CanBegin(w) == inv[w].pc = "idle" /\ server.pc = "serving"

Fresh(w, op, email) == [Idle EXCEPT !.op = op, !.email = email]

\* What a function returned to its caller.
Returned(value) == [code |-> "return", body |-> value]

\* The handlers that open with buscar_aluno_por_email; the function
\* listar_cobrancas_assinatura, which no handler calls, opens with it too.
LookupOps == {"enviar_boleto", "trocar_assinatura_cartao", "trocar_assinatura_boleto",
              "habilitar_aluno"}

\* An exception raised by buscar_aluno_por_email: before the try in
\* enviar_boleto (line 472), inside it in the other handlers.
LookupRaised(op, e) == IF op = "enviar_boleto" THEN Unhandled ELSE Caught(op, e)

\* `if not aluno` after the lookup: the 404 raised before the try in
\* enviar_boleto (line 474) and inside it in the other handlers (lines 420,
\* 570, 639), and the value returned at line 247.
LookupAbsent(op) ==
    LET notFound == HTTPException("404", <<"Aluno nao encontrado">>)
    IN  CASE op = "enviar_boleto" -> Raise(notFound)
          [] op = "listar_cobrancas_assinatura" -> Returned([erro |-> <<"Aluno nao encontrado">>])
          [] OTHER -> Caught(op, notFound)

\* The step after the lookup returned a student.
AfterStudent(op) == IF op = "habilitar_aluno" THEN "enable" ELSE "customer_lookup"

\* buscar_aluno_por_email, lines 90-96: one turn of the loop, the fetch of
\* page i.page with the given fate and what follows from its answer.
Turn(i, fate) ==
    LET r == get_students(i.page, fate)
        sent == Sent(i, Req("GET", "students", i.page, fate))
        hit == MatchIn(r.data.docs, i.email)
    IN  IF r.raised THEN Finish(sent, LookupRaised(i.op, RequestException))
        ELSE IF r.data.k = "none" \/ r.data.docs = <<>> THEN Finish(sent, LookupAbsent(i.op))
        ELSE IF ~IsNoStudent(hit) THEN [sent EXCEPT !.aluno = hit, !.pc = AfterStudent(i.op)]
        ELSE [sent EXCEPT !.page = @ + 1, !.pc = "lookup"]

\* The entry of a caller of buscar_aluno_por_email (enviar_boleto line 472,
\* habilitar_aluno line 417, trocar_assinatura_* lines 568 and 637,
\* listar_cobrancas_assinatura line 245) up to the answer to the fetch of page 1.
StudentLookup(w, op) ==
    /\ CanBegin(w)
    /\ \E email \in RequestEmails, fate \in Fates :
        inv' = [inv EXCEPT ![w] = Turn([Fresh(w, op, email) EXCEPT !.page = 1], fate)]
    /\ UNCHANGED <<pages, customers, subscriptions, payments, enforcesUnique, scan, server>>

\* buscar_aluno_por_email, line 96 and back to line 90: the fetch of the next
\* page after a page that held students and no match.
buscar_aluno_por_email(w) ==
    /\ inv[w].pc = "lookup"
    /\ \E fate \in Fates : inv' = [inv EXCEPT ![w] = Turn(inv[w], fate)]
    /\ UNCHANGED <<pages, customers, subscriptions, payments, enforcesUnique, scan, server>>

\* habilitar_aluno, lines 422-429: patch_student_action(aluno["id"], "enable")
\* for the student found, and the answer by the status of the response.
patch_student_action(w) ==
    /\ inv[w].pc = "enable"
    /\ \E fate \in Fates :
        LET i == Sent(inv[w], Req("PATCH", "students/enable", 0, fate))
            refused == HTTPException("400", <<"enrollment answered ", fate>>)
        IN  inv' = [inv EXCEPT ![w] =
                IF fate = "raise" THEN Finish(i, Caught(i.op, RequestException))
                ELSE IF fate # "ok" THEN Finish(i, Caught(i.op, refused))
                ELSE Finish(i, Response("200", [status |-> <<"Aluno habilitado com sucesso">>]))]
    /\ UNCHANGED <<pages, customers, subscriptions, payments, enforcesUnique, scan, server>>

\* create_payment, lines 157-168: what it raises for a fate that is not "ok".
\* The HTTPException raised for a non-success status is raised inside the try
\* and caught by its own except clause.
CreatePaymentError(fate) ==
    LET raised == IF fate = "raise" THEN RequestException
                  ELSE HTTPException("500", <<"Erro Asaas (", fate, ") ao criar pagamento">>)
    IN  HTTPException("500", <<"Erro interno ao gerar pagamento">>)

\* POST /payments on the platform with the payload of lines 141-147: the
\* payment it stores and answers with, pending, with an invoice url and, when
\* the slip has been generated, a bank slip url.
CreatedPayment(cid, valor, due_date, description, slip) ==
    [customer |-> cid, billingType |-> "BOLETO", value |-> valor,
     dueDate |-> DueDateText(due_date), description |-> description,
     status |-> "PENDING", subscription |-> 0,
     bankSlipUrl |-> slip, invoiceUrl |-> Str(<<"i">>)]

\* The link taken from the bank slip url alone.
LinkOfBankSlipOnly(pay) == pay.bankSlipUrl

\* pay.get("bankSlipUrl") or pay.get("invoiceUrl")
Link(pay) == IF Truthy(pay.bankSlipUrl) THEN pay.bankSlipUrl ELSE pay.invoiceUrl

\* enviar_boleto, lines 478-486: the payment is created, the link chosen and,
\* without a whatsapp number, the handler returns; with one, the message is
\* built first, and aluno['name'].split()[0] (line 483) raises IndexError for
\* a name without a word.
create_payment(w) ==
    /\ inv[w].pc = "payment"
    /\ \E request \in PaymentRequests, fate \in Fates, slip \in {Null, Str(<<"s">>)} :
        LET valor == request.valor
            venc == request.vencimento
            pay == CreatedPayment(inv[w].cid, valor, venc, "Mensalidade", slip)
            i == Sent([inv[w] EXCEPT !.request = request], Req("POST", "payments", inv[w].cid, fate))
            phone == inv[w].aluno.phone
            whatsapp == OnlyDigits(IF phone.k = "missing" THEN <<>> ELSE phone.v)
            done == [i EXCEPT !.pay = Len(payments) + 1, !.link = Link(pay)]
        IN  IF ~venc.iso
            THEN /\ inv' = [inv EXCEPT ![w] =
                        Finish([@ EXCEPT !.request = request], Caught(@.op, PyError("ValueError")))]
                 /\ UNCHANGED payments
            ELSE IF fate # "ok"
            THEN /\ inv' = [inv EXCEPT ![w] = Finish(i, Caught(i.op, CreatePaymentError(fate)))]
                 /\ UNCHANGED payments
            ELSE /\ payments' = Append(payments, pay)
                 /\ inv' = [inv EXCEPT ![w] =
                        IF phone.k = "null" THEN Finish(done, Caught(i.op, PyError("TypeError")))
                        ELSE IF whatsapp # <<>>
                        THEN IF SplitIsEmpty(inv[w].aluno.name)
                             THEN Finish(done, Caught(i.op, PyError("IndexError")))
                             ELSE [done EXCEPT !.pc = "notify"]
                        ELSE Finish(done, Response("200", [status |-> "enviado", link |-> done.link]))]
    /\ UNCHANGED <<pages, customers, subscriptions, enforcesUnique, scan, server>>

\* The notification sent again for as long as it fails.
send_whatsapp_via_zaia_retrying(w) ==
    /\ inv[w].pc = "notify"
    /\ \E fate \in Fates :
        LET i == Sent(inv[w], Req("POST", "zaia", 0, fate))
        IN  inv' = [inv EXCEPT ![w] =
                IF fate # "ok" THEN i
                ELSE Finish(i, Response("200", [status |-> "enviado", link |-> i.link]))]
    /\ UNCHANGED <<pages, customers, subscriptions, payments, enforcesUnique, scan, server>>

\* enviar_boleto, line 484: send_whatsapp_via_zaia, then the return of line 486.
send_whatsapp_via_zaia(w) ==
    /\ inv[w].pc = "notify"
    /\ \E fate \in Fates :
        LET i == Sent(inv[w], Req("POST", "zaia", 0, fate))
        IN  inv' = [inv EXCEPT ![w] =
                IF fate = "raise" THEN Finish(i, Caught(i.op, RequestException))
                ELSE IF fate # "ok" THEN Finish(i, Caught(i.op, HTTPError(fate)))
                ELSE Finish(i, Response("200", [status |-> "enviado", link |-> i.link]))]
    /\ UNCHANGED <<pages, customers, subscriptions, payments, enforcesUnique, scan, server>>

\* The date datetime.date.today().isoformat() gives during the behaviour.
Today == "2025-02-01"

\* The billing type of the boleto handler sent by both handlers.
BillingTypeAlwaysBoleto(op) == "BOLETO"

\* "billingType" of the body of the PUT: line 609 and line 678
BillingTypeOf(op) == IF op = "trocar_assinatura_cartao" THEN "CREDIT_CARD" ELSE "BOLETO"

\* trocar_assinatura_*, lines 575-597: the active subscription of the customer.
SubscriptionLookup(w) ==
    /\ inv[w].pc = "subscription"
    /\ \E fate \in Fates :
        LET i == Sent(inv[w], Req("GET", "subscriptions", inv[w].cid, fate))
            data == ActiveSubscriptionsOf(i.cid)
        IN  inv' = [inv EXCEPT ![w] =
                IF fate = "raise" THEN Finish(i, Caught(i.op, RequestException))
                ELSE IF fate # "ok" THEN Finish(i, Caught(i.op, HTTPError(fate)))
                ELSE IF data = <<>>
                THEN Finish(i, Caught(i.op, HTTPException("404", <<"Assinatura ativa nao encontrada">>)))
                ELSE [i EXCEPT !.sub = data[1], !.pc = "subscription_update"]]
    /\ UNCHANGED <<pages, customers, subscriptions, payments, enforcesUnique, scan, server>>

\* PUT /subscriptions/{id} on the platform: the subscription takes the body's
\* fields and, with updatePendingPayments, so do its pending payments.
UpdatedSubscription(s, body) ==
    [s EXCEPT !.billingType = body.billingType, !.status = body.status,
              !.nextDueDate = body.nextDueDate]

UpdatedPayments(sub, body) ==
    [p \in 1..Len(payments) |->
        IF body.updatePendingPayments /\ payments[p].subscription = sub
           /\ payments[p].status = "PENDING"
        THEN [payments[p] EXCEPT !.billingType = body.billingType]
        ELSE payments[p]]

\* trocar_assinatura_*, lines 600-625: the update and the handler's answer.
SubscriptionUpdate(w) ==
    /\ inv[w].pc = "subscription_update"
    /\ \E fate \in Fates :
        LET body == [billingType |-> BillingTypeOf(inv[w].op), updatePendingPayments |-> TRUE,
                     status |-> "ACTIVE", nextDueDate |-> Today]
            i == Sent(inv[w], Req("PUT", "subscriptions", inv[w].sub, fate))
            updated == UpdatedSubscription(subscriptions[i.sub], body)
        IN  IF fate = "ok"
            THEN /\ subscriptions' = [subscriptions EXCEPT ![i.sub] = updated]
                 /\ payments' = UpdatedPayments(i.sub, body)
                 /\ inv' = [inv EXCEPT ![w] = Finish(i, Response("200",
                        [assinatura_id |-> i.sub, proxima_cobranca |-> updated.nextDueDate,
                         tipo_pagamento |-> updated.billingType]))]
            ELSE /\ inv' = [inv EXCEPT ![w] = Finish(i, Caught(i.op,
                        IF fate = "raise" THEN RequestException ELSE HTTPError(fate)))]
                 /\ UNCHANGED <<subscriptions, payments>>
    /\ UNCHANGED <<pages, customers, enforcesUnique, scan, server>>

\* zaia_reenviar_boleto, lines 494-501: no student is looked up; the customer
\* is resolved from a record made of the email alone.
zaia_reenviar_boleto(w) ==
    /\ CanBegin(w)
    /\ \E email \in RequestEmails :
        LET i == Fresh(w, "zaia_reenviar_boleto", email)
            aluno == [NoStudent EXCEPT !.id = <<"email">>, !.email = email, !.name = email]
        IN  inv' = [inv EXCEPT ![w] =
                IF email = <<>> THEN Finish(i, Response("200", [erro |-> <<"Email e obrigatorio">>]))
                ELSE [i EXCEPT !.aluno = aluno, !.pc = "customer_lookup"]]
    /\ UNCHANGED <<pages, customers, subscriptions, payments, enforcesUnique, scan, server>>

\* The first subscription of the list whatever its status; 0 for None.
FirstOfAny(subs) == IF subs = <<>> THEN 0 ELSE Head(subs)

\* next((s for s in assinaturas if s["status"] == "ACTIVE"), None); 0 for None
RECURSIVE FirstActive(_)
FirstActive(subs) ==
    IF subs = <<>> THEN 0
    ELSE IF subscriptions[Head(subs)].status = "ACTIVE" THEN Head(subs)
    ELSE FirstActive(Tail(subs))

\* zaia_reenviar_boleto, lines 505-517: the customer's subscriptions.
SubscriptionsList(w) ==
    /\ inv[w].pc = "subscriptions"
    /\ \E fate \in Fates :
        LET i == Sent(inv[w], Req("GET", "subscriptions", inv[w].cid, fate))
            ativa == FirstActive(SubscriptionsOf(i.cid))
        IN  inv' = [inv EXCEPT ![w] =
                IF fate = "raise" THEN Finish(i, Caught(i.op, RequestException))
                ELSE IF fate # "ok" THEN Finish(i, Caught(i.op, HTTPError(fate)))
                ELSE IF ativa = 0
                THEN Finish(i, Response("200", [erro |-> <<"Nenhuma assinatura ativa encontrada">>]))
                ELSE [i EXCEPT !.sub = ativa, !.pc = "pending"]]
    /\ UNCHANGED <<pages, customers, subscriptions, payments, enforcesUnique, scan, server>>

\* zaia_reenviar_boleto, lines 521-540: the pending charge of the subscription.
PendingList(w) ==
    /\ inv[w].pc = "pending"
    /\ \E fate \in Fates :
        LET i == Sent(inv[w], Req("GET", "payments", inv[w].sub, fate))
            cobrancas == PendingPaymentsOfSubscription(i.sub)
            cobranca == payments[cobrancas[1]]
        IN  inv' = [inv EXCEPT ![w] =
                IF fate = "raise" THEN Finish(i, Caught(i.op, RequestException))
                ELSE IF fate # "ok" THEN Finish(i, Caught(i.op, HTTPError(fate)))
                ELSE IF cobrancas = <<>>
                THEN Finish(i, Response("200", [erro |-> <<"Nenhuma cobranca pendente encontrada">>]))
                ELSE Finish([i EXCEPT !.pay = cobrancas[1]], Response("200",
                        [nome |-> i.aluno.name, vencimento |-> cobranca.dueDate,
                         valor |-> cobranca.value, boleto_url |-> Link(cobranca)]))]
    /\ UNCHANGED <<pages, customers, subscriptions, payments, enforcesUnique, scan, server>>

\* The body of an answer with a non-success status: JSON (an object without
\* the keys of the success answer) or a text Response.json() cannot parse.
ErrorBodies == {"json", "text"}

\* GET /subscriptions/{id}/payments: the payments of the subscription.
PaymentsOfSubscription(s) ==
    SelectSeq([i \in 1..Len(payments) |-> i], LAMBDA i : payments[i].subscription = s)

\* What requests.get(...).json() of lines 252-257 and 265-269 gives for a
\* request that was not answered with success: the exception of the request,
\* the JSONDecodeError of a body that is no JSON, or else the error object.
JsonOf(fate, body) ==
    IF fate = "raise" THEN [raised |-> TRUE, error |-> RequestException]
    ELSE IF body = "text" THEN [raised |-> TRUE, error |-> PyError("JSONDecodeError")]
    ELSE [raised |-> FALSE, error |-> PyError("")]

\* listar_cobrancas_assinatura, lines 251-262: the active subscriptions of the
\* customer, read without a look at the status of the answer.
ActiveSubscription(w) ==
    /\ inv[w].pc = "active_subscription"
    /\ \E fate \in Fates, body \in ErrorBodies :
        LET i == Sent(inv[w], Req("GET", "subscriptions", inv[w].cid, fate))
            data == IF fate = "ok" THEN ActiveSubscriptionsOf(i.cid) ELSE <<>>
            json == JsonOf(fate, body)
        IN  inv' = [inv EXCEPT ![w] =
                IF fate # "ok" /\ json.raised THEN Finish(i, Propagated(json.error))
                ELSE IF data = <<>>
                THEN Finish(i, Returned([erro |-> <<"Nenhuma assinatura ativa">>]))
                ELSE [i EXCEPT !.sub = data[1], !.pc = "subscription_payments"]]
    /\ UNCHANGED <<pages, customers, subscriptions, payments, enforcesUnique, scan, server>>

\* listar_cobrancas_assinatura, lines 264-271: every payment of the
\* subscription, the body returned whatever the status of the answer.
SubscriptionPayments(w) ==
    /\ inv[w].pc = "subscription_payments"
    /\ \E fate \in Fates, body \in ErrorBodies :
        LET i == Sent(inv[w], Req("GET", "subscriptions/payments", inv[w].sub, fate))
            json == JsonOf(fate, body)
        IN  inv' = [inv EXCEPT ![w] =
                IF fate = "ok" THEN Finish(i, Returned([data |-> PaymentsOfSubscription(i.sub)]))
                ELSE IF json.raised THEN Finish(i, Propagated(json.error))
                ELSE Finish(i, Returned([errors |-> fate]))]
    /\ UNCHANGED <<pages, customers, subscriptions, payments, enforcesUnique, scan, server>>

\* ------------------------------------------------------------ inactivity scan
\* A recorded lastAccess: the instant in hours, and whether the text states
\* UTC (a trailing "Z", which line 451 rewrites to "+00:00") or no offset.
Iso(t, utc) == [k |-> "iso", t |-> t, utc |-> utc]

HoursPerDay == 24

WarnAfterDays == 8

DisableAfterDays == 10

\* (hoje - datetime.fromisoformat(last.replace("Z", "+00:00"))).days, hoje being
\* the naive datetime.utcnow(): subtracting an aware datetime raises TypeError.
Dias(hoje, last) ==
    [raised |-> last.utc, days |-> (hoje - last.t) \div HoursPerDay]

\* The branch of lines 452-461 taken for a day count.
Classify(dias) ==
    IF dias >= DisableAfterDays THEN "disable"
    ELSE IF dias >= WarnAfterDays THEN "warn"
    ELSE "none"

\* The loop body with a student without lastAccess taken for one never seen.
BranchWithoutSkip(hoje, last) ==
    IF last.k # "iso" THEN "disable"
    ELSE IF Dias(hoje, last).raised THEN "raise"
    ELSE Classify(Dias(hoje, last).days)

\* The loop body, lines 447-461, by the student's lastAccess: `continue` when
\* none is recorded (line 448), the TypeError of line 451, or the branch of
\* the day count.
Branch(hoje, last) ==
    IF last.k # "iso" THEN "continue"
    ELSE IF Dias(hoje, last).raised THEN "raise"
    ELSE Classify(Dias(hoje, last).days)

ScanIdle == [pc |-> "idle", runs |-> 0, hoje |-> 0, nows |-> <<>>, page |-> 0, docs |-> <<>>,
             bloqueados |-> 0, avisados |-> 0, events |-> <<>>, tasks |-> <<>>,
             outbox |-> <<>>, mails |-> <<>>, result |-> NoResponse]

\* What the scan did: a page fetch, the loop body entered for a student
\* ("visit"), a disable request or a warning task added.
Event(run, kind, page, id, fate) == [run |-> run, kind |-> kind, page |-> page, id |-> id, fate |-> fate]

\* The instants datetime.utcnow() gives at the start of a scan, in hours.
NowSet == {192, 240}

\* check_inatividade, lines 438-439
ScanBegin ==
    /\ scan.pc = "idle"
    /\ server.pc = "serving"
    /\ \E hoje \in NowSet :
        scan' = [scan EXCEPT !.pc = "fetch", !.runs = @ + 1, !.hoje = hoje, !.nows = Append(@, hoje),
                             !.page = 1, !.docs = <<>>, !.bloqueados = 0, !.avisados = 0,
                             !.tasks = <<>>, !.result = NoResponse]
    /\ UNCHANGED <<pages, customers, subscriptions, payments, enforcesUnique, inv, server>>

\* The except clause of check_inatividade, line 468; the tasks added are
\* dropped with the response that would have carried them.
ScanRaise(s, e) ==
    [s EXCEPT !.pc = "done", !.tasks = <<>>, !.result = Raise(HTTPException("500", StrExc(e)))]

\* The background tasks of one response: they run one after the other, in
\* the order they were added, each in a worker thread; `running` says that
\* the first of them is in its thread.
Chain(run, tasks) == [run |-> run, tasks |-> tasks, running |-> FALSE]

\* The return of line 465; the background tasks of the response run after it,
\* next to those of the responses before it.
ScanReturn(s) ==
    [s EXCEPT !.pc = "done",
              !.outbox = IF s.tasks = <<>> THEN @ ELSE Append(@, Chain(s.runs, s.tasks)),
              !.tasks = <<>>,
              !.result = Response("200", [bloqueados |-> s.bloqueados, avisados |-> s.avisados])]

\* check_inatividade, lines 442-444: the fetch of the next page.
ScanFetch ==
    /\ scan.pc = "fetch"
    /\ \E fate \in Fates :
        LET r == get_students(scan.page, fate)
            s == [scan EXCEPT !.events = Append(@, Event(scan.runs, "fetch", scan.page, <<>>, fate))]
        IN  scan' = IF r.raised THEN ScanRaise(s, RequestException)
                    ELSE IF r.data.k = "none" \/ r.data.docs = <<>> THEN ScanReturn(s)
                    ELSE [s EXCEPT !.pc = "student", !.docs = r.data.docs]
    /\ UNCHANGED <<pages, customers, subscriptions, payments, enforcesUnique, inv, server>>

\* The loop moving on with the page after the next one.
ScanAdvanceSkippingPage(s) ==
    IF Len(s.docs) > 1 THEN [s EXCEPT !.docs = Tail(@)]
    ELSE [s EXCEPT !.docs = <<>>, !.page = @ + 2, !.pc = "fetch"]

\* The loop moves to the next student, or to the next page after the last one.
ScanAdvance(s) ==
    IF Len(s.docs) > 1 THEN [s EXCEPT !.docs = Tail(@)]
    ELSE [s EXCEPT !.docs = <<>>, !.page = @ + 1, !.pc = "fetch"]

\* check_inatividade, lines 446-461: one student of the page.
ScanStudent ==
    /\ scan.pc = "student"
    /\ \E fate \in Fates :
        LET aluno == Head(scan.docs)
            last == aluno.lastAccess
            branch == Branch(scan.hoje, last)
            s == [scan EXCEPT !.events = Append(@, Event(scan.runs, "visit", scan.page, aluno.id, "ok"))]
            patched == [s EXCEPT !.events = Append(@, Event(scan.runs, "disable", scan.page, aluno.id, fate))]
            task == [recipient |-> aluno.email, first_name |-> FirstWord(aluno.name)]
            warned == [s EXCEPT !.events = Append(@, Event(scan.runs, "warn", scan.page, aluno.id, "ok")),
                                !.tasks = Append(@, task), !.avisados = @ + 1]
        IN  scan' =
                IF branch = "continue" THEN ScanAdvance(s)
                ELSE IF branch = "raise" THEN ScanRaise(s, PyError("TypeError"))
                ELSE IF branch = "disable"
                THEN IF fate = "raise" THEN ScanRaise(patched, RequestException)
                     ELSE ScanAdvance([patched EXCEPT !.bloqueados = @ + 1])
                ELSE IF branch = "warn"
                THEN IF SplitIsEmpty(aluno.name) THEN ScanRaise(s, PyError("IndexError"))
                     ELSE ScanAdvance(warned)
                ELSE ScanAdvance(s)
    /\ UNCHANGED <<pages, customers, subscriptions, payments, enforcesUnique, inv, server>>

\* The chains after the first task of chain c ended: the next task of the
\* chain waits for the event loop; a chain without tasks is over.
AfterTask(outbox, c) ==
    IF Len(outbox[c].tasks) = 1
    THEN SubSeq(outbox, 1, c - 1) \o SubSeq(outbox, c + 1, Len(outbox))
    ELSE [outbox EXCEPT ![c] = [@ EXCEPT !.tasks = Tail(@), !.running = FALSE]]

\* background_tasks.add_task with a function that is not a coroutine, lines
\* 456-460: the event loop hands the next task of a response to a worker
\* thread.  check_inatividade is a coroutine that never awaits, so the loop
\* hands nothing over while a scan walks.
TaskStart ==
    /\ scan.pc \notin {"fetch", "student"}
    /\ \E c \in 1..Len(scan.outbox) :
        /\ ~scan.outbox[c].running
        /\ scan' = [scan EXCEPT !.outbox[c].running = TRUE]
    /\ UNCHANGED <<pages, customers, subscriptions, payments, enforcesUnique, inv, server>>

\* The background task with a failed delivery reported as the scan's failure.
send_inactivity_email_propagating ==
    /\ \E c \in 1..Len(scan.outbox), sent \in BOOLEAN :
        /\ scan.outbox[c].running
        /\ scan' = [scan EXCEPT
                !.outbox = AfterTask(@, c),
                !.mails = Append(@, [run |-> scan.outbox[c].run,
                                     task |-> Head(scan.outbox[c].tasks), sent |-> sent]),
                !.result = IF sent THEN @
                           ELSE Raise(HTTPException("500", <<"Erro ao enviar email">>))]
    /\ UNCHANGED <<pages, customers, subscriptions, payments, enforcesUnique, inv, server>>

\* send_inactivity_email, lines 309-333, in its worker thread, whatever the
\* event loop does meanwhile: True when the mail was sent, False when sending
\* raised.
send_inactivity_email ==
    /\ \E c \in 1..Len(scan.outbox), sent \in BOOLEAN :
        /\ scan.outbox[c].running
        /\ scan' = [scan EXCEPT
                !.outbox = AfterTask(@, c),
                !.mails = Append(@, [run |-> scan.outbox[c].run,
                                     task |-> Head(scan.outbox[c].tasks), sent |-> sent])]
    /\ UNCHANGED <<pages, customers, subscriptions, payments, enforcesUnique, inv, server>>

\* ------------------------------------------------------------ initial states
vars == <<pages, customers, subscriptions, payments, enforcesUnique, inv, scan, server>>

Ana == [id |-> <<"ana">>, email |-> <<"A", "b">>, name |-> <<"A", "n", " ", "B">>,
        phone |-> Str(<<"5", "-", "1">>), cpf |-> Str(<<"1", ".", "2">>), lastAccess |-> Missing]

Bob == [id |-> <<"bob">>, email |-> <<"b">>, name |-> <<" ", "B", "o">>,
        phone |-> Missing, cpf |-> Missing, lastAccess |-> Missing]

\* The enrollment listings of the billing workflows: a student per page; one
\* page of two students whose phone is null or holds no digit; and a student
\* with a phone whose name holds no word.
BillingRosters ==
    {<< <<Ana>>, <<Bob>> >>,
     << <<[Bob EXCEPT !.phone = Null], [Ana EXCEPT !.phone = Str(<<"-">>)]>> >>,
     << <<[Ana EXCEPT !.name = <<" ", VerticalTab>>]>> >>}

\* The customer the resolver made of Ana in an earlier request.
AnaCustomer == [name |-> <<"A", "n", " ", "B">>, email |-> <<"a", "b">>,
                mobilePhone |-> Str(<<"5", "1">>), cpfCnpj |-> Str(<<"1", "2">>)]

Sub(c, st) == [customer |-> c, status |-> st, billingType |-> "BOLETO", nextDueDate |-> "2025-03-10"]

Charge(c, s) ==
    [customer |-> c, billingType |-> "BOLETO", value |-> 100, dueDate |-> "2025-03-10",
     description |-> "Assinatura", status |-> "PENDING", subscription |-> s,
     bankSlipUrl |-> Str(<<"s">>), invoiceUrl |-> Str(<<"i">>)]

\* What the billing platform holds at the start: nothing; Ana's customer
\* without a subscription; with an active subscription and its pending
\* charge; with an inactive and an active subscription and no charge.
BillingWorlds ==
    {[c |-> <<>>, s |-> <<>>, p |-> <<>>],
     [c |-> <<AnaCustomer>>, s |-> <<>>, p |-> <<>>],
     [c |-> <<AnaCustomer>>, s |-> <<Sub(1, "ACTIVE")>>, p |-> <<Charge(1, 1)>>],
     [c |-> <<AnaCustomer>>, s |-> <<Sub(1, "INACTIVE"), Sub(1, "ACTIVE")>>, p |-> <<>>]}

Init ==
    /\ pages \in BillingRosters
    /\ \E world \in BillingWorlds :
        /\ customers = world.c
        /\ subscriptions = world.s
        /\ payments = world.p
    /\ enforcesUnique \in BOOLEAN
    /\ inv = [w \in Workers |-> Idle]
    /\ scan = ScanIdle
    /\ server = Serving

Next ==
    \E w \in Workers :
        \/ StudentLookup(w, "enviar_boleto")
        \/ StudentLookup(w, "trocar_assinatura_cartao")
        \/ StudentLookup(w, "trocar_assinatura_boleto")
        \/ StudentLookup(w, "habilitar_aluno")
        \/ StudentLookup(w, "listar_cobrancas_assinatura")
        \/ buscar_aluno_por_email(w)
        \/ patch_student_action(w)
        \/ zaia_reenviar_boleto(w)
        \/ CustomerLookup(w)
        \/ CustomerCreate(w)
        \/ create_payment(w)
        \/ send_whatsapp_via_zaia(w)
        \/ SubscriptionLookup(w)
        \/ SubscriptionUpdate(w)
        \/ SubscriptionsList(w)
        \/ PendingList(w)
        \/ ActiveSubscription(w)
        \/ SubscriptionPayments(w)

Spec == Init /\ [][Next]_vars

\* The lastAccess values of the scanned students: none recorded (absent or
\* null), a text without offset at hour 0 or 1, a text ending in "Z".
LastAccessPool == {Missing, Null, Iso(0, FALSE), Iso(1, FALSE), Iso(0, TRUE)}

PageSizes == {1, 2}

ScanStudentAt(p, i, last) ==
    [id |-> <<p, i>>, email |-> IF i = 1 THEN <<"x">> ELSE <<"Y">>, name |-> <<"A", " ", "b">>,
     phone |-> Missing, cpf |-> Missing, lastAccess |-> last]

ScanRosters ==
    LET Profiles == UNION {[1..n -> LastAccessPool] : n \in PageSizes}
        Shapes == UNION {[1..m -> Profiles] : m \in 0..MaxPages}
    IN  {[p \in 1..Len(r) |-> [i \in 1..Len(r[p]) |-> ScanStudentAt(p, i, r[p][i])]] : r \in Shapes}

ScanInit ==
    /\ pages \in ScanRosters
    /\ customers = <<>>
    /\ subscriptions = <<>>
    /\ payments = <<>>
    /\ enforcesUnique = TRUE
    /\ inv = [w \in Workers |-> Idle]
    /\ scan = ScanIdle
    /\ server = Serving

ScanNext == ScanBegin \/ ScanFetch \/ ScanStudent \/ TaskStart \/ send_inactivity_email

ScanSpec == ScanInit /\ [][ScanNext]_vars

\* The scan with its remote calls returning: get_students and
\* patch_student_action carry timeout=10 (lines 84 and 101), so a fetch or a
\* loop step that is due is eventually taken.  Nothing obliges a caller to
\* request a scan, nor the mail server to answer.
\* The listings walked under fairness: those whose students have no
\* lastAccess key or a recorded one (a null one is skipped like an absent one).
WalkRosters ==
    {r \in ScanRosters :
        \A p \in 1..Len(r) : \A i \in 1..Len(r[p]) : r[p][i].lastAccess # Null}

WalkInit ==
    /\ pages \in WalkRosters
    /\ customers = <<>>
    /\ subscriptions = <<>>
    /\ payments = <<>>
    /\ enforcesUnique = TRUE
    /\ inv = [w \in Workers |-> Idle]
    /\ scan = ScanIdle
    /\ server = Serving

ScanFairSpec == WalkInit /\ [][ScanNext]_vars /\ WF_vars(ScanFetch) /\ WF_vars(ScanStudent)

\* ------------------------------------------------------------ repeated scans
\* A scan that starts on the page the scan before it ended on.
ScanRestartFromLastPage ==
    /\ scan.pc = "done"
    /\ server.pc = "serving"
    /\ scan.runs < MaxScans
    /\ \E hoje \in NowSet :
        scan' = [scan EXCEPT !.pc = "fetch", !.runs = @ + 1, !.hoje = hoje, !.nows = Append(@, hoje),
                             !.docs = <<>>, !.bloqueados = 0, !.avisados = 0,
                             !.tasks = <<>>, !.result = NoResponse]
    /\ UNCHANGED <<pages, customers, subscriptions, payments, enforcesUnique, inv, server>>

\* check_inatividade requested again after the scan before it was answered:
\* lines 438-439 give the locals their initial values, the handler reading
\* nothing a scan before it wrote.  The warnings of the responses before it
\* that are still to deliver stay with their responses.
ScanRestart ==
    /\ scan.pc = "done"
    /\ server.pc = "serving"
    /\ scan.runs < MaxScans
    /\ \E hoje \in NowSet :
        scan' = [scan EXCEPT !.pc = "fetch", !.runs = @ + 1, !.hoje = hoje, !.nows = Append(@, hoje),
                             !.page = 1, !.docs = <<>>, !.bloqueados = 0, !.avisados = 0,
                             !.tasks = <<>>, !.result = NoResponse]
    /\ UNCHANGED <<pages, customers, subscriptions, payments, enforcesUnique, inv, server>>

\* The listings of the repeated scans: empty or of one page, its students
\* without lastAccess or with one that states no offset.
RescanRosters ==
    {r \in ScanRosters :
        /\ Len(r) <= 1
        /\ \A p \in 1..Len(r) : \A i \in 1..Len(r[p]) :
            r[p][i].lastAccess \in {Missing, Iso(0, FALSE), Iso(1, FALSE)}}

RescanInit ==
    /\ pages \in RescanRosters
    /\ customers = <<>>
    /\ subscriptions = <<>>
    /\ payments = <<>>
    /\ enforcesUnique = TRUE
    /\ inv = [w \in Workers |-> Idle]
    /\ scan = ScanIdle
    /\ server = Serving

RescanNext ==
    ScanBegin \/ ScanRestart \/ ScanFetch \/ ScanStudent \/ TaskStart \/ send_inactivity_email

RescanSpec == RescanInit /\ [][RescanNext]_vars

\* ------------------------------------------------------------ start-up
\* The load of the module, top to bottom: the settings (lines 34-53), the
\* OpenAI client (line 55), the definitions of the helpers and handlers, the
\* statement of lines 549-563 between two handlers, and the start of the
\* server (lines 703-704).

\* The environments a process may be started in, without a .env file: which
\* variables are set, SMTP_PORT unset, a number or another text, and whether
\* the file is run as a script (__name__ == "__main__") or imported by the
\* server.
Environments ==
    [OPENAI_API_KEY : BOOLEAN, ASAAS_API_KEY : BOOLEAN, FLEXGE_API_KEY : BOOLEAN,
     SMTP_USER : BOOLEAN, SMTP_PASSWORD : BOOLEAN, SMTP_PORT : {"unset", "587", "smtp"},
     main : BOOLEAN]

\* The load ends with an exception.
LoadFailed(error) == [server EXCEPT !.pc = "failed", !.error = error]

\* The fields of Settings declared `X: str = os.getenv("X")`, lines 36-45:
\* their default is None when the variable is unset.
RequiredKeys == {"FLEXGE_API_KEY", "OPENAI_API_KEY", "SMTP_USER", "SMTP_PASSWORD", "ASAAS_API_KEY"}

\* class Settings and settings = Settings(), lines 34-53.  The class body
\* runs first: int(os.getenv("SMTP_PORT", 587)) raises ValueError for a text
\* that is no number (line 39).  Then Settings() validates the fields, the
\* defaults included, and raises ValidationError for a str field that is
\* None (line 53).
LoadSettings ==
    /\ server.pc = "settings"
    /\ server' = IF server.env.SMTP_PORT = "smtp" THEN LoadFailed("ValueError")
                 ELSE IF \E key \in RequiredKeys : ~server.env[key]
                 THEN LoadFailed("ValidationError")
                 ELSE [server EXCEPT !.pc = "client"]
    /\ UNCHANGED <<pages, customers, subscriptions, payments, enforcesUnique, inv, scan>>

\* client = OpenAI(api_key=settings.OPENAI_API_KEY), line 55: the key is a
\* string here, the settings having been validated, and the client is made.
LoadClient ==
    /\ server.pc = "client"
    /\ server' = [server EXCEPT !.pc = "changeBillingType"]
    /\ UNCHANGED <<pages, customers, subscriptions, payments, enforcesUnique, inv, scan>>

\* The names bound at module level when line 549 is reached: the imports,
\* app, the settings, the client, the request models and the functions
\* defined above it.  The sub_id of lines 262, 597 and 666 are locals of
\* functions.
ModuleNames ==
    {"os", "re", "requests", "time", "json", "datetime", "HTTPException", "app", "Settings",
     "settings", "client", "EmailRequest", "EnableStudentRequest", "PaymentRequest",
     "get_students", "buscar_aluno_por_email", "patch_student_action", "asaas_headers",
     "get_or_create_customer", "create_payment", "get_latest_unpaid_payment",
     "send_whatsapp_via_zaia", "send_inactivity_email", "habilitar_aluno",
     "check_inatividade", "enviar_boleto", "zaia_reenviar_boleto"}

\* Lines 549-563, run once while the module loads.  The url of line 551 reads
\* settings and sub_id: a name that is not bound raises NameError before the
\* request is made, and `except requests.exceptions.HTTPError` does not catch
\* it.  With the names bound, the POST is sent and a non-success answer is
\* raised again as HTTPException; then the rest of the module loads and,
\* imported or run as a script, the process serves.
LoadChangeBillingType ==
    /\ server.pc = "changeBillingType"
    /\ \E fate \in Fates :
        LET sending == [server EXCEPT !.requests =
                            Append(@, Req("POST", "subscriptions/changeBillingType", 0, fate))]
        IN  server' =
                IF ~({"settings", "sub_id"} \subseteq ModuleNames) THEN LoadFailed("NameError")
                ELSE IF fate = "raise" THEN [sending EXCEPT !.pc = "failed", !.error = "RequestException"]
                ELSE IF fate # "ok" THEN [sending EXCEPT !.pc = "failed", !.error = "HTTPException"]
                ELSE [sending EXCEPT !.pc = "serving"]
    /\ UNCHANGED <<pages, customers, subscriptions, payments, enforcesUnique, inv, scan>>

StartupInit ==
    /\ pages = <<>>
    /\ customers = <<>>
    /\ subscriptions = <<>>
    /\ payments = <<>>
    /\ enforcesUnique = TRUE
    /\ inv = [w \in Workers |-> Idle]
    /\ scan = ScanIdle
    /\ \E env \in Environments : server = Process("settings", env)

StartupNext == LoadSettings \/ LoadClient \/ LoadChangeBillingType

StartupSpec == StartupInit /\ [][StartupNext]_vars

\* ------------------------------------------------------------ payment helpers
\* create_payment and get_latest_unpaid_payment called one after the other for
\* a customer, as a caller of the two helpers would, and
\* create_checkout_flexivel, the other function that creates payments.

\* The day a date text names, counted from 2025-01-01.
DayNumber(date) ==
    CASE date = "2025-01-15" -> 15
      [] date = "2025-02-01" -> 32
      [] date = "2025-02-04" -> 35
      [] date = "2025-03-01" -> 60
      [] date = "2025-03-02" -> 61
      [] date = "2025-03-10" -> 69

\* The payments of a customer whatever their status and billing type.
PaymentsOfCustomer(c) ==
    SelectSeq([i \in 1..Len(payments) |-> i], LAMBDA i : payments[i].customer = c)

\* GET /payments?customer=c&status=PENDING&billingType=BOLETO, lines 172-175
PendingBoletosOf(c) ==
    SelectSeq([i \in 1..Len(payments) |-> i],
              LAMBDA i : /\ payments[i].customer = c
                         /\ payments[i].status = "PENDING"
                         /\ payments[i].billingType = "BOLETO")

\* sort=dueDate, order=ASC, limit=1 (lines 176-179) and data["data"][0] (line
\* 189): the payment with the earliest due date, the oldest of them when
\* several share it; 0 for None when the list is empty.
FirstByDueDate(ids) ==
    IF ids = <<>> THEN 0
    ELSE CHOOSE p \in {ids[k] : k \in 1..Len(ids)} :
            \A q \in {ids[k] : k \in 1..Len(ids)} :
                \/ DayNumber(payments[p].dueDate) < DayNumber(payments[q].dueDate)
                \/ (DayNumber(payments[p].dueDate) = DayNumber(payments[q].dueDate) /\ p <= q)

\* create_payment(customer_id, value, due_date), lines 139-168, called with a
\* datetime for a customer of the platform.
CallCreatePayment(w) ==
    /\ CanBegin(w)
    /\ \E c \in 1..Len(customers), request \in {r \in PaymentRequests : r.vencimento.iso},
          fate \in Fates, slip \in {Null, Str(<<"s">>)} :
        LET start == [Idle EXCEPT !.op = "create_payment", !.cid = c, !.request = request]
            i == Sent(start, Req("POST", "payments", c, fate))
            pay == CreatedPayment(c, request.valor, request.vencimento, "Mensalidade", slip)
        IN  IF fate = "ok"
            THEN /\ payments' = Append(payments, pay)
                 /\ inv' = [inv EXCEPT ![w] =
                        [i EXCEPT !.pay = Len(payments) + 1, !.link = Link(pay), !.pc = "created"]]
            ELSE /\ inv' = [inv EXCEPT ![w] = Finish(i, Raise(CreatePaymentError(fate)))]
                 /\ UNCHANGED payments
    /\ UNCHANGED <<pages, customers, subscriptions, enforcesUnique, scan, server>>

\* get_latest_unpaid_payment(customer_id), lines 170-203, called for a customer
\* of the platform, or for the customer of the payment just created.
get_latest_unpaid_payment(w) ==
    /\ inv[w].pc \in {"idle", "created"}
    /\ server.pc = "serving"
    /\ \E c \in 1..Len(customers), fate \in Fates :
        LET start == IF inv[w].pc = "idle"
                     THEN [Idle EXCEPT !.op = "get_latest_unpaid_payment", !.cid = c]
                     ELSE inv[w]
            i == Sent(start, Req("GET", "payments", c, fate))
            failed == HTTPException("500", <<"Erro interno ao consultar cobranca">>)
        IN  /\ inv[w].pc = "created" => c = inv[w].cid
            /\ inv' = [inv EXCEPT ![w] =
                    IF fate = "ok" THEN Finish(i, Returned(FirstByDueDate(PendingBoletosOf(c))))
                    ELSE Finish(i, Raise(failed))]
    /\ UNCHANGED <<pages, customers, subscriptions, payments, enforcesUnique, scan, server>>

\* (datetime.date.today() + datetime.timedelta(days=3)).isoformat(), line 210
InThreeDays == "2025-02-04"

\* POST /payments on the platform with the payload of lines 206-212: the
\* payment it stores, pending, of no billing type yet.
CheckoutPayment(cid, valor, slip) ==
    [customer |-> cid, billingType |-> "UNDEFINED", value |-> valor,
     dueDate |-> InThreeDays, description |-> "Pagamento flexivel",
     status |-> "PENDING", subscription |-> 0,
     bankSlipUrl |-> slip, invoiceUrl |-> Str(<<"i">>)]

\* create_checkout_flexivel(customer_id, valor), lines 205-218, called for a
\* customer of the platform: the invoice url of the payment created; the
\* HTTPError of raise_for_status and the exception of the request leave it.
create_checkout_flexivel(w) ==
    /\ CanBegin(w)
    /\ \E c \in 1..Len(customers), valor \in {r.valor : r \in PaymentRequests},
          fate \in Fates, slip \in {Null, Str(<<"s">>)} :
        LET start == [Idle EXCEPT !.op = "create_checkout_flexivel", !.cid = c]
            i == Sent(start, Req("POST", "payments", c, fate))
            pay == CheckoutPayment(c, valor, slip)
        IN  IF fate = "ok"
            THEN /\ payments' = Append(payments, pay)
                 /\ inv' = [inv EXCEPT ![w] =
                        Finish([i EXCEPT !.pay = Len(payments) + 1, !.link = pay.invoiceUrl],
                               Returned(pay.invoiceUrl))]
            ELSE /\ inv' = [inv EXCEPT ![w] = Finish(i, Propagated(
                        IF fate = "raise" THEN RequestException ELSE HTTPError(fate)))]
                 /\ UNCHANGED payments
    /\ UNCHANGED <<pages, customers, subscriptions, enforcesUnique, scan, server>>

BobCustomer == [name |-> <<"B", "o">>, email |-> <<"b">>, mobilePhone |-> Null, cpfCnpj |-> Null]

\* A payment of the customer received before the behaviour starts.
Received(c) == [Charge(c, 0) EXCEPT !.status = "RECEIVED", !.dueDate = "2025-01-15"]

\* The payments the platform holds at the start: none; a received payment of
\* the first customer; a pending card payment of the first customer and a
\* pending boleto of the second.
PaymentWorlds ==
    {<<>>,
     <<Received(1)>>,
     <<[Charge(1, 0) EXCEPT !.billingType = "CREDIT_CARD"], Charge(2, 0)>>}

PaymentInit ==
    /\ pages = <<>>
    /\ customers = <<AnaCustomer, BobCustomer>>
    /\ subscriptions = <<>>
    /\ payments \in PaymentWorlds
    /\ enforcesUnique = TRUE
    /\ inv = [w \in Workers |-> Idle]
    /\ scan = ScanIdle
    /\ server = Serving

PaymentNext ==
    \E w \in Workers :
        \/ CallCreatePayment(w)
        \/ get_latest_unpaid_payment(w)
        \/ create_checkout_flexivel(w)

PaymentSpec == PaymentInit /\ [][PaymentNext]_vars

\* ------------------------------------------------------------ claims
\* The events of scan run `run` of the given kind about student `id`.
EventsOf(run, kind, id) ==
    {k \in 1..Len(scan.events) :
        /\ scan.events[k].run = run
        /\ scan.events[k].kind = kind
        /\ scan.events[k].id = id}

\* The events of scan run `run` of the given kind.
EventsOfKind(run, kind) ==
    {k \in 1..Len(scan.events) : scan.events[k].run = run /\ scan.events[k].kind = kind}

\* The whole days between hoje and a recorded lastAccess.
WholeDays(hoje, last) == (hoje - last.t) \div HoursPerDay

\* C5: whenever the scan processes a student with a recorded lastAccess and
\* whole-day difference D, it issues a disable request for the student iff
\* D >= 10, adds a warning for the student iff 8 <= D < 10, and does neither
\* iff D < 8.
C5_ClassifiedByWholeDays ==
    [][(scan.pc = "student" /\ scan'.events # scan.events
        /\ Head(scan.docs).lastAccess.k = "iso") =>
            LET aluno == Head(scan.docs)
                D == WholeDays(scan.hoje, aluno.lastAccess)
                new == {k \in 1..Len(scan'.events) : k > Len(scan.events)}
                did(kind) == \E k \in new : scan'.events[k].kind = kind /\ scan'.events[k].id = aluno.id
            IN  /\ did("disable") <=> D >= DisableAfterDays
                /\ did("warn") <=> (D >= WarnAfterDays /\ D < DisableAfterDays)]_vars

\* The requests of an invocation's log that are of the given method and resource.
Sends(i, m, r) == {k \in 1..Len(i.log) : i.log[k].m = m /\ i.log[k].r = r}

Last(seq) == seq[Len(seq)]

IsTrocar(op) == op \in {"trocar_assinatura_cartao", "trocar_assinatura_boleto"}

\* C1: an enviar_boleto invocation that created the payment and sent the
\* whatsapp notification answers 200 with the link, whatever became of the
\* notification request.
C1_NotificationNeverFailsPayment ==
    \A w \in Workers :
        (inv[w].op = "enviar_boleto" /\ inv[w].pc = "done" /\ inv[w].pay # 0
         /\ Sends(inv[w], "POST", "zaia") # {}) =>
            /\ inv[w].result.code = "200"
            /\ inv[w].result.body.link = inv[w].link

\* C2: a trocar_assinatura invocation that found the student and whose lookup
\* of the active subscription was answered with none ends with 404 and has
\* sent no POST and no PUT.
C2_NoActiveSubscriptionIsNotFound ==
    \A w \in Workers :
        (IsTrocar(inv[w].op) /\ inv[w].pc = "done" /\ inv[w].log # <<>>
         /\ Last(inv[w].log) = Req("GET", "subscriptions", inv[w].cid, "ok")
         /\ inv[w].sub = 0) =>
            /\ inv[w].result.code = "404"
            /\ \A k \in 1..Len(inv[w].log) : inv[w].log[k].m \notin {"POST", "PUT"}

\* C3: the billing platform never holds two customers with the same email.
C3_AtMostOneCustomerPerEmail ==
    \A a, b \in 1..Len(customers) : customers[a].email = customers[b].email => a = b

\* The resolver of this invocation ended with the platform's word on the
\* customer: an id was returned, or the creation was refused as a duplicate.
Resolved(i) ==
    \/ i.cid # 0
    \/ \E k \in Sends(i, "POST", "customers") : i.log[k].f = "400"

\* C4: on a platform that refuses a second customer with a used email, no
\* email ever has two customers, and once the resolver of an invocation has
\* returned or been refused, exactly one customer has the student's
\* normalized email, under every interleaving of the two workers.
C4_ExactlyOneCustomerWhenUnique ==
    enforcesUnique =>
        /\ \A a, b \in 1..Len(customers) : customers[a].email = customers[b].email => a = b
        /\ \A w \in Workers :
            Resolved(inv[w]) => Len(CustomersByEmail(NormalEmail(inv[w].aluno))) = 1

\* C4 witness: both workers looked the same email up before either created
\* it; one creation succeeded and the other was refused.
C4_RaceWitness ==
    /\ enforcesUnique
    /\ \E w, v \in Workers :
        /\ w # v
        /\ NormalEmail(inv[w].aluno) = NormalEmail(inv[v].aluno)
        /\ \E k \in Sends(inv[w], "POST", "customers") : inv[w].log[k].f = "ok"
        /\ \E k \in Sends(inv[v], "POST", "customers") : inv[v].log[k].f = "400"
        /\ \E k \in Sends(inv[v], "GET", "customers") : inv[v].log[k].f = "ok"

\* C7: when POST /payments is answered with a non-success status, the error
\* enviar_boleto delivers carries that status.
C7_PaymentErrorCarriesRemoteStatus ==
    \A w \in Workers :
        (inv[w].op = "enviar_boleto" /\ inv[w].pc = "done" /\ inv[w].log # <<>>
         /\ Last(inv[w].log).r = "payments" /\ Last(inv[w].log).f \in ErrorStatuses) =>
            \E n \in 1..Len(inv[w].result.body.detail) :
                inv[w].result.body.detail[n] = Last(inv[w].log).f

\* The student of the listing with this id (its page and position).
StudentOf(id) == pages[id[1]][id[2]]

\* C6: in the running scan, every student the loop has processed that has a
\* recorded lastAccess has exactly one disable request and no warning when at
\* or past the disable threshold, exactly one warning and no disable request
\* when in the warn band, and no student has both.
C6_OneActionPerStudent ==
    \A v \in EventsOfKind(scan.runs, "visit") :
        LET id == scan.events[v].id
            D == WholeDays(scan.hoje, StudentOf(id).lastAccess)
            disables == Cardinality(EventsOf(scan.runs, "disable", id))
            warns == Cardinality(EventsOf(scan.runs, "warn", id))
        IN  /\ disables + warns <= 1
            /\ StudentOf(id).lastAccess.k = "iso" =>
                /\ D >= DisableAfterDays => disables = 1 /\ warns = 0
                /\ (D >= WarnAfterDays /\ D < DisableAfterDays) => warns = 1 /\ disables = 0

\* C8: a disable request answered with a non-success status ends the scan at
\* that student with a failure: nothing follows it in the scan, the student
\* is not counted and the caller does not receive 200.
C8_FailedDisableStopsScan ==
    \A k \in EventsOfKind(scan.runs, "disable") :
        scan.events[k].fate \in ErrorStatuses =>
            /\ k = Len(scan.events)
            /\ scan.pc = "done"
            /\ scan.result.code # "200"

\* The fetch of scan run `run` that failed, if any: the event's position.
FailedFetches(run) == {k \in EventsOfKind(run, "fetch") : scan.events[k].fate # "ok"}

\* C9: after the fetch of page k failed, with a non-success status or with an
\* exception (a timeout), the scan fetches no further page and acts on no
\* further student, every disable request and warning of the scan is for a
\* student of pages 1..k-1, and the caller receives the counts: 200 with
\* the numbers of disable requests and warnings the scan issued.
C9_FailedFetchEndsWalk ==
    \A k \in FailedFetches(scan.runs) :
        /\ k = Len(scan.events)
        /\ scan.pc = "done"
        /\ \A j \in 1..Len(scan.events) :
            (scan.events[j].run = scan.runs /\ scan.events[j].kind # "fetch") =>
                scan.events[j].page < scan.events[k].page
        /\ scan.result.code = "200"
        /\ scan.result.body.bloqueados = Cardinality(EventsOfKind(scan.runs, "disable"))
        /\ scan.result.body.avisados = Cardinality(EventsOfKind(scan.runs, "warn"))

\* C10: a page fetch that raises (a timeout) gives the caller of the scan what
\* a non-success answer to the same fetch gives: 200 and the counts of the
\* pages before it.
C10_TimeoutLikeNonSuccess ==
    \A k \in FailedFetches(scan.runs) :
        scan.pc = "done" =>
            /\ scan.result.code = "200"
            /\ scan.result.body.bloqueados = Cardinality(EventsOfKind(scan.runs, "disable"))
            /\ scan.result.body.avisados = Cardinality(EventsOfKind(scan.runs, "warn"))

\* The requests of an invocation's log sent after the lookup of the student.
AfterLookup(i) == SelectSeq(i.log, LAMBDA q : q.r # "students")

\* The customer creations of an invocation that the platform accepted.
CreatedBy(i) == {k \in Sends(i, "POST", "customers") : i.log[k].f = "ok"}

RECURSIVE CreatedCount(_)
CreatedCount(ws) ==
    IF ws = {} THEN 0
    ELSE LET w == CHOOSE x \in ws : TRUE
         IN  Cardinality(CreatedBy(inv[w])) + CreatedCount(ws \ {w})

\* The customers the platform held before any invocation: the first ones.
Preexisting == Len(customers) - CreatedCount(Workers)

\* The student of worker w's invocation had no billing customer: none was
\* held at the start and no other invocation created one.
NoPriorCustomer(w) ==
    /\ \A c \in 1..Preexisting : customers[c].email # NormalEmail(inv[w].aluno)
    /\ \A v \in Workers \ {w} :
        CreatedBy(inv[v]) = {} \/ NormalEmail(inv[v].aluno) # NormalEmail(inv[w].aluno)

\* C11: an enviar_boleto invocation that answered 200 for an enrolled student
\* without a billing customer sent, after the student lookup, the customer
\* lookup, one customer creation, one payment creation and at most the
\* notification, in this order; the payment is for the created customer, with
\* the value and the due date of the request, and the link returned is not
\* empty.
C11_OneCustomerThenOnePayment ==
    \A w \in Workers :
        LET i == inv[w]
            sent == AfterLookup(i)
            kinds == [k \in 1..Len(sent) |-> <<sent[k].m, sent[k].r>>]
            billing == << <<"GET", "customers">>, <<"POST", "customers">>, <<"POST", "payments">> >>
        IN  (i.op = "enviar_boleto" /\ i.pc = "done" /\ i.result.code = "200"
             /\ NoPriorCustomer(w)) =>
                /\ kinds \in {billing, Append(billing, <<"POST", "zaia">>)}
                /\ sent[2].f = "ok"
                /\ sent[3] = Req("POST", "payments", i.cid, "ok")
                /\ i.cid > Preexisting
                /\ customers[i.cid] = CustomerPayload(i.aluno)
                /\ payments[i.pay].customer = i.cid
                /\ payments[i.pay].value = i.request.valor
                /\ payments[i.pay].dueDate = i.request.vencimento.date
                /\ Truthy(i.result.body.link)

\* C11 witness: the scenario of the specification, a payment of 150 due on
\* 2025-03-01 issued and notified for a student without a customer.
C11_IssuedForNewCustomerWitness ==
    \E w \in Workers :
        /\ inv[w].op = "enviar_boleto" /\ inv[w].pc = "done" /\ inv[w].result.code = "200"
        /\ NoPriorCustomer(w)
        /\ inv[w].request.valor = 150
        /\ inv[w].request.vencimento.date = "2025-03-01"
        /\ Sends(inv[w], "POST", "zaia") # {}

\* All the students of the listing, in page order.
RECURSIVE AllDocs(_)
AllDocs(p) == IF p > Len(pages) THEN <<>> ELSE pages[p] \o AllDocs(p + 1)

\* The fetches of an invocation's student lookup.
Fetches(i) == SelectSeq(i.log, LAMBDA q : q.r = "students")

\* C12: an invocation of a handler that first looks the student up, whose
\* email no student of the listing has and whose page fetches were all
\* answered, ends with 404 and has sent nothing but the page fetches.
C12_UnknownStudentIsNotFound ==
    \A w \in Workers :
        LET i == inv[w]
        IN  (i.op \in LookupOps /\ i.pc = "done"
             /\ IsNoStudent(MatchIn(AllDocs(1), i.email))
             /\ \A k \in 1..Len(i.log) : i.log[k].f = "ok") =>
                /\ i.result.code = "404"
                /\ AfterLookup(i) = <<>>

\* The warnings of the responses given that are still to deliver.
RECURSIVE TasksIn(_)
TasksIn(outbox) == IF outbox = <<>> THEN 0 ELSE Len(Head(outbox).tasks) + TasksIn(Tail(outbox))

\* The scan returned from line 465: its last request was a page fetch that
\* did not raise.
ScanReturned ==
    /\ scan.pc = "done"
    /\ scan.events # <<>>
    /\ Last(scan.events).kind = "fetch"
    /\ Last(scan.events).fate # "raise"

\* C13: no warning is delivered while the scan walks; the answer of a scan
\* that returned is 200 with the numbers of disable requests and of warnings
\* it issued, before, during and after the deliveries and whether or not they
\* succeed; and every warning is attempted at most once.
C13_ScanIndependentOfDelivery ==
    /\ scan.pc # "done" => scan.mails = <<>> /\ scan.outbox = <<>>
    /\ Len(scan.mails) + TasksIn(scan.outbox) <= Cardinality(EventsOfKind(scan.runs, "warn"))
    /\ ScanReturned =>
        /\ scan.result = Response("200",
                [bloqueados |-> Cardinality(EventsOfKind(scan.runs, "disable")),
                 avisados |-> Cardinality(EventsOfKind(scan.runs, "warn"))])
        /\ Len(scan.mails) + TasksIn(scan.outbox) = Cardinality(EventsOfKind(scan.runs, "warn"))

\* C13 witness: a scan that returned two warnings, one delivered and one whose
\* delivery failed.
C13_FailedDeliveryWitness ==
    /\ ScanReturned
    /\ scan.outbox = <<>>
    /\ \E a, b \in 1..Len(scan.mails) : scan.mails[a].sent /\ ~scan.mails[b].sent
    /\ scan.result.code = "200"

\* The requests of an invocation's log that change something remote.
Mutating(i) == {k \in 1..Len(i.log) : i.log[k].m \in {"POST", "PUT", "PATCH"}}

\* The listing of the customer's subscriptions was answered.
SubscriptionsAnswered(i) == \E k \in Sends(i, "GET", "subscriptions") : i.log[k].f = "ok"

\* The listing of the subscription's pending payments was answered.
PendingAnswered(i) == \E k \in Sends(i, "GET", "payments") : i.log[k].f = "ok"

NothingActive(i) == SubscriptionsAnswered(i) /\ ActiveSubscriptionsOf(i.cid) = <<>>

NothingPending(i) ==
    /\ PendingAnswered(i)
    /\ ActiveSubscriptionsOf(i.cid) # <<>>
    /\ PendingPaymentsOfSubscription(ActiveSubscriptionsOf(i.cid)[1]) = <<>>

\* C14: a zaia_reenviar_boleto invocation whose customer has no ACTIVE
\* subscription, or whose ACTIVE subscription has no PENDING payment, answers
\* 200 with the message of that case, and its only mutating request, if any,
\* is the creation of the customer.
C14_NothingToResendIsNormal ==
    \A w \in Workers :
        LET i == inv[w]
        IN  (i.op = "zaia_reenviar_boleto" /\ i.pc = "done") =>
                /\ NothingActive(i) =>
                    /\ i.result = Response("200", [erro |-> <<"Nenhuma assinatura ativa encontrada">>])
                    /\ Last(i.log).r = "subscriptions"
                    /\ \A k \in Mutating(i) : i.log[k].r = "customers"
                /\ NothingPending(i) =>
                    /\ i.sub = ActiveSubscriptionsOf(i.cid)[1]
                    /\ i.result = Response("200", [erro |-> <<"Nenhuma cobranca pendente encontrada">>])
                    /\ \A k \in Mutating(i) : i.log[k].r = "customers"

\* C14 witness: one invocation ended for want of an active subscription, on a
\* customer it created, and the other for want of a pending payment.
C14_BothCasesWitness ==
    \E w, v \in Workers :
        /\ inv[w].op = "zaia_reenviar_boleto" /\ inv[w].pc = "done"
        /\ NothingActive(inv[w]) /\ Mutating(inv[w]) # {}
        /\ inv[v].op = "zaia_reenviar_boleto" /\ inv[v].pc = "done"
        /\ NothingPending(inv[v])

\* C15: no invocation sends the same request twice: any two requests of its
\* log differ in method, resource or argument, whatever became of the first.
C15_NoRequestSentTwice ==
    \A w \in Workers :
        \A j, k \in 1..Len(inv[w].log) :
            (inv[w].log[j].m = inv[w].log[k].m /\ inv[w].log[j].r = inv[w].log[k].r
             /\ inv[w].log[j].a = inv[w].log[k].a) => j = k

\* C15 witness: an invocation whose page fetch, customer lookup, customer
\* creation, payment creation or notification failed has ended, and the
\* other sent every kind of request of the subscription switch.
C15_FailedAndEndedWitness ==
    \E w, v \in Workers :
        /\ inv[w].pc = "done" /\ inv[w].log # <<>>
        /\ Last(inv[w].log).f # "ok" /\ Last(inv[w].log).r = "zaia"
        /\ \E k \in Sends(inv[w], "GET", "customers") : inv[w].log[k].f # "ok"
        /\ inv[v].pc = "done" /\ Sends(inv[v], "PUT", "subscriptions") # {}

\* Worker w's call of get_latest_unpaid_payment is answered in this step.
LatestAnswered(w) ==
    /\ inv[w].pc \in {"idle", "created"}
    /\ inv'[w].pc = "done"
    /\ Last(inv'[w].log) = Req("GET", "payments", inv'[w].cid, "ok")

\* C16: when get_latest_unpaid_payment is answered for the customer of the
\* payment the caller has just created, and that payment is the customer's
\* only pending boleto, it returns that payment, which has the value and the
\* due date given; when the customer has no pending boleto it returns None
\* and raises nothing.
C16_LatestIsTheOneCreated ==
    [][\A w \in Workers :
        LatestAnswered(w) =>
            LET c == inv'[w].cid
                pending == {p \in 1..Len(payments) :
                                /\ payments[p].customer = c
                                /\ payments[p].status = "PENDING"
                                /\ payments[p].billingType = "BOLETO"}
            IN  /\ (inv[w].pc = "created" /\ pending = {inv[w].pay}) =>
                    /\ inv'[w].result = Returned(inv[w].pay)
                    /\ payments[inv[w].pay].value = inv[w].request.valor
                    /\ payments[inv[w].pay].dueDate = inv[w].request.vencimento.date
                    /\ DayNumber(payments[inv[w].pay].dueDate) > DayNumber(Today)
                /\ pending = {} => inv'[w].result = Returned(0)]_vars

\* C16 witness: one caller got back the payment it created although the
\* customer had a received payment with an earlier due date, and the other,
\* asking for a customer with no pending boleto, got None.
C16_RoundTripWitness ==
    \E w, v \in Workers :
        /\ inv[w].op = "create_payment"
        /\ inv[w].pc = "done" /\ inv[w].pay # 0 /\ inv[w].result = Returned(inv[w].pay)
        /\ \E p \in 1..Len(payments) :
            payments[p].customer = inv[w].cid /\ payments[p].status = "RECEIVED"
        /\ inv[v].pc = "done" /\ inv[v].op = "get_latest_unpaid_payment"
        /\ inv[v].result = Returned(0)

\* C17: every disable request and every warning of the scan is for a student
\* with a recorded lastAccess, and the two counts are the numbers of those
\* requests and warnings: a student without lastAccess, on whatever page,
\* adds to neither.
C17_NoLastAccessNoTransition ==
    /\ \A k \in 1..Len(scan.events) :
        scan.events[k].kind \in {"disable", "warn"} =>
            StudentOf(scan.events[k].id).lastAccess.k = "iso"
    /\ scan.pc \in {"fetch", "student"} =>
        /\ scan.bloqueados = Cardinality(EventsOfKind(scan.runs, "disable"))
        /\ scan.avisados = Cardinality(EventsOfKind(scan.runs, "warn"))
    /\ ScanReturned =>
        /\ scan.result.body.bloqueados = Cardinality(EventsOfKind(scan.runs, "disable"))
        /\ scan.result.body.avisados = Cardinality(EventsOfKind(scan.runs, "warn"))

\* C17 witness: a scan returned after visiting, on the first and on the second
\* page, students without lastAccess (absent and null) and disabling another.
C17_SkippedOnBothPagesWitness ==
    /\ ScanReturned
    /\ \E a, b \in EventsOfKind(scan.runs, "visit") :
        /\ scan.events[a].page = 1 /\ StudentOf(scan.events[a].id).lastAccess.k = "missing"
        /\ scan.events[b].page = 2 /\ StudentOf(scan.events[b].id).lastAccess.k = "null"
    /\ EventsOfKind(scan.runs, "disable") # {}
    /\ scan.result.body.bloqueados = 1
    /\ scan.result.body.avisados = 0

\* C18: the student lookup of an invocation fetched pages 1, 2, 3, ... in
\* order; a student it returned is the first of the listing, in page order,
\* whose email is the given one up to case, found on the last page fetched;
\* and it returned None exactly when the last page fetched was the empty page
\* after the listing and no student of the listing has the email.
C18_FirstMatchOrAbsentAtEmptyPage ==
    \A w \in Workers :
        LET i == inv[w]
            f == Fetches(i)
            n == Len(f)
            returnedNone == IsNoStudent(i.aluno) /\ f[n].f # "raise"
            atEmptyPage == n = Len(pages) + 1 /\ IsNoStudent(MatchIn(AllDocs(1), i.email))
        IN  (i.op \in LookupOps /\ i.pc \notin {"idle", "lookup"}) =>
                /\ \A k \in 1..n : f[k].a = k
                /\ ~IsNoStudent(i.aluno) =>
                    /\ i.aluno = MatchIn(AllDocs(1), i.email)
                    /\ i.aluno = MatchIn(pages[n], i.email)
                /\ returnedNone => atEmptyPage
                /\ (atEmptyPage /\ f[n].f = "ok") => returnedNone

\* Worker w's trocar_assinatura invocation answers 200 in this step.
Switched(w) ==
    /\ IsTrocar(inv[w].op)
    /\ inv[w].pc = "subscription_update"
    /\ inv'[w].pc = "done"
    /\ inv'[w].result.code = "200"

\* C19: when a trocar_assinatura invocation answers 200, its requests were,
\* in this order, the page fetches of the student lookup, the customer lookup
\* (and a creation when it found none), the lookup of the active subscription
\* and one update; the update is of the customer's active subscription, which
\* takes the handler's billing type, status ACTIVE and today's date as
\* nextDueDate, its pending payments taking the billing type and nothing else
\* changing; and the answer names that subscription.
C19_SwitchOrderAndUpdate ==
    [][\A w \in Workers :
        Switched(w) =>
            LET i == inv'[w]
                sent == AfterLookup(i)
                kinds == [k \in 1..Len(sent) |-> <<sent[k].m, sent[k].r>>]
                found == << <<"GET", "customers">>, <<"GET", "subscriptions">>,
                            <<"PUT", "subscriptions">> >>
                made == << <<"GET", "customers">>, <<"POST", "customers">>,
                           <<"GET", "subscriptions">>, <<"PUT", "subscriptions">> >>
                requested == IF i.op = "trocar_assinatura_cartao" THEN "CREDIT_CARD" ELSE "BOLETO"
            IN  /\ Fetches(i) # <<>>
                /\ i.log = Fetches(i) \o sent
                /\ ~IsNoStudent(i.aluno)
                /\ kinds \in {found, made}
                /\ sent[Len(sent) - 1] = Req("GET", "subscriptions", i.cid, "ok")
                /\ sent[Len(sent)] = Req("PUT", "subscriptions", i.sub, "ok")
                /\ i.sub = ActiveSubscriptionsOf(i.cid)[1]
                /\ subscriptions' = [subscriptions EXCEPT ![i.sub] =
                        [@ EXCEPT !.billingType = requested, !.status = "ACTIVE",
                                  !.nextDueDate = Today]]
                /\ Len(payments') = Len(payments)
                /\ \A p \in 1..Len(payments) :
                    payments'[p] =
                        IF payments[p].subscription = i.sub /\ payments[p].status = "PENDING"
                        THEN [payments[p] EXCEPT !.billingType = requested]
                        ELSE payments[p]
                /\ i.result.body.assinatura_id = i.sub
                /\ i.result.body.tipo_pagamento = requested
                /\ i.result.body.proxima_cobranca = Today]_vars

\* C19 witness: a switch to card answered 200 and the subscription and its
\* pending payment are by card.
C19_SwitchedToCardWitness ==
    \E w \in Workers :
        /\ inv[w].op = "trocar_assinatura_cartao" /\ inv[w].pc = "done"
        /\ inv[w].result.code = "200"
        /\ subscriptions[inv[w].sub].billingType = "CREDIT_CARD"
        /\ subscriptions[inv[w].sub].nextDueDate = Today
        /\ \E p \in 1..Len(payments) :
            /\ payments[p].subscription = inv[w].sub
            /\ payments[p].billingType = "CREDIT_CARD"

\* C20: when a student of the listing has the email given to
\* zaia_reenviar_boleto, the customer the invocation creates is made of that
\* student's record and the name it returns is the student's name.
C20_CustomerFromStudentRecord ==
    \A w \in Workers :
        LET i == inv[w]
            student == MatchIn(AllDocs(1), i.email)
        IN  (i.op = "zaia_reenviar_boleto" /\ i.pc = "done" /\ ~IsNoStudent(student)) =>
                /\ CreatedBy(i) # {} => customers[i.cid] = CustomerPayload(student)
                /\ (i.pay # 0 /\ i.result.code = "200") => i.result.body.nome = student.name

\* The environment lacks nothing the load reads: every key of the settings
\* is set and SMTP_PORT is unset or a number.
EnvironmentComplete(env) == (\A key \in RequiredKeys : env[key]) /\ env.SMTP_PORT # "smtp"

\* C22: the load of the module sends no request, and in an environment that
\* lacks nothing it does not fail: it goes on to the serving state.
C22_StartupReachesServing ==
    /\ server.requests = <<>>
    /\ EnvironmentComplete(server.env) => server.pc # "failed"

\* The students scan run `run` sent a request of this kind for.
RunActions(run, kind) == {scan.events[k].id : k \in EventsOfKind(run, kind)}

\* The events of scan run `run`, in order.
RunEvents(run) == SelectSeq(scan.events, LAMBDA e : e.run = run)

RunFinished(run) == run < scan.runs \/ (run = scan.runs /\ scan.pc = "done")

\* Every request of the run was answered with success.
RunAnswered(run) == \A k \in 1..Len(scan.events) : scan.events[k].run = run => scan.events[k].fate = "ok"

\* The run ended with the return of line 465.
RunReturned(run) ==
    /\ RunFinished(run)
    /\ RunEvents(run) # <<>>
    /\ Last(RunEvents(run)).kind = "fetch"
    /\ Last(RunEvents(run)).fate # "raise"

\* C21: two finished scans over the listing, started at the same `now` and
\* with every request answered, sent disable requests for the same students
\* and added warnings for the same students; and every warning of every scan
\* that returned was dispatched, those of a later scan on top of those of the
\* scans before it.
C21_ScansKeepNoMemory ==
    /\ \A a, b \in 1..scan.runs :
        (RunFinished(a) /\ RunFinished(b) /\ scan.nows[a] = scan.nows[b]
         /\ RunAnswered(a) /\ RunAnswered(b)) =>
            /\ RunActions(a, "disable") = RunActions(b, "disable")
            /\ RunActions(a, "warn") = RunActions(b, "warn")
    /\ Len(scan.mails) + TasksIn(scan.outbox) =
        Cardinality({k \in 1..Len(scan.events) :
            scan.events[k].kind = "warn" /\ RunReturned(scan.events[k].run)})

\* C21 witness: two scans at the same `now` have returned, each having
\* disabled a student and warned another, and both warnings of the student in
\* the warn band were delivered.
C21_WarnedTwiceWitness ==
    /\ scan.runs = 2 /\ scan.pc = "done"
    /\ scan.nows[1] = scan.nows[2]
    /\ RunAnswered(1) /\ RunAnswered(2)
    /\ RunActions(1, "disable") # {} /\ RunActions(2, "disable") # {}
    /\ RunActions(1, "warn") # {} /\ RunActions(2, "warn") # {}
    /\ Len(scan.mails) = 2
    /\ scan.mails[1].task = scan.mails[2].task

\* The page fetches of the running scan, in order.
RunFetches == SelectSeq(RunEvents(scan.runs), LAMBDA e : e.kind = "fetch")

\* The k-th fetch of the scan is of page k; every fetch before the last was
\* answered with a page that holds students; and a fetch that failed or gave
\* an empty page is the last thing the scan did before it answered.
WalkInOrder ==
    LET f == RunFetches
    IN  /\ \A k \in 1..Len(f) : f[k].page = k
        /\ \A k \in 1..Len(f) :
            (f[k].fate # "ok" \/ k > Len(pages)) =>
                /\ k = Len(f)
                /\ Last(RunEvents(scan.runs)) = f[k]
                /\ scan.pc = "done"

\* C23: the scan fetches page 1, 2, 3, ... each once and stops at the first
\* fetch that fails or gives an empty page; and with remote calls that
\* return, a scan that has started eventually answers its caller.
C23_WalkInOrderAndReturns ==
    /\ []WalkInOrder
    /\ (scan.pc \in {"fetch", "student"}) ~> (scan.pc = "done" /\ scan.result # NoResponse)

\* C23 witness: a scan has walked a listing of MaxPages pages of two students
\* to the empty page after them and answered 200.
C23_WalkedToTheEndWitness ==
    /\ Len(pages) = MaxPages
    /\ \A p \in 1..Len(pages) : Len(pages[p]) = 2
    /\ Len(RunFetches) = MaxPages + 1
    /\ \A k \in 1..Len(RunFetches) : RunFetches[k].fate = "ok"
    /\ scan.pc = "done"
    /\ scan.result.code = "200"

====
